---- MODULE Spec2Model ----
(***************************************************************************)
(* examples/training/train_new_entity_type.py: the script that adds the    *)
(* entity type ANIMAL to a blank pipeline.  One action per statement (or   *)
(* straight-line group of statements) of main and train_ner; the lazy      *)
(* generator get_gold_parses and the batching of spacy.gold.minibatch are  *)
(* unfolded into the steps the interpreter takes.                          *)
(***************************************************************************)
EXTENDS Integers, Sequences, FiniteSets

VARIABLES
    pc,                 \* position of the interpreter in main / train_ner
    model_name,         \* main's first argument
    output_directory,   \* main's second argument, later the Path made of it
    fs,                 \* directories that exist on the file system
    disk,               \* pipelines written by to_disk: {[path, nlp]}
    nlp,                \* the pipeline object
    nlp2,               \* the pipeline reloaded by spacy.load
    train_data,         \* the list of (raw_text, entity_offsets) examples
    rng,                \* state of the module-global generator of `random`
    gen,                \* which generator algorithm the interpreter ships
    itn,                \* the value range(50) hands out next
    losses,             \* the per-epoch losses record
    started,            \* has the generator of get_gold_parses been entered
    pos,                \* examples the generator has already yielded
    batch,              \* the batch minibatch yielded last
    nshuffles,          \* history: shuffles in the current epoch
    golds,              \* history: examples made into GoldParse this epoch
    batches,            \* history: batches handed to update this epoch
    fed,                \* history: every batch handed to update, with itn
    calls,              \* history: the other library calls made, in order
    failed,             \* the library call that raised, or "none"
    fs0,                \* history: fs when the run started
    run,                \* history: 1 for the first run, 2 for the rerun
    first               \* history: what the first run was given and fed

vars == <<pc, model_name, output_directory, fs, disk, nlp, nlp2, train_data,
          rng, gen, itn, losses, started, pos, batch, nshuffles, golds,
          batches, fed, calls, failed, fs0, run, first>>

-----------------------------------------------------------------------------
(* Program constants *)

\* the loop written as range(49)
OneEpochShort == 50 - 1

\* for itn in range(50)
Epochs == 50

\* minibatch(..., size=3)
BatchSize == 3

\* random.seed(0)
SeedArg == 0

TestText == "Do you like horses?"

Animal(s, e) == [start |-> s, end |-> e, label |-> "ANIMAL"]

Example(t, e) == [text |-> t, ents |-> e]

\* the list literal of main
MainTrainData ==
    << Example("Horses are too tall and they pretend to care about your feelings",
               << Animal(0, 6) >>),
       Example("Do they bite?", << >>),
       Example("horses are too tall and they pretend to care about your feelings",
               << Animal(0, 6) >>),
       Example("horses pretend to care about your feelings",
               << Animal(0, 6) >>),
       Example("they pretend to care about your feelings, those horses",
               << Animal(48, 54) >>),
       Example("horses?", << Animal(0, 6) >>) >>

-----------------------------------------------------------------------------
(* Values *)

None == [kind |-> "None", p |-> ""]

Str(s) == [kind |-> "str", p |-> s]

\* pathlib.Path(s): the empty string names the current directory
Path(v) == [kind |-> "Path", p |-> IF v.p = "" THEN "." ELSE v.p]

\* the truth value of the string the Path was made of: Path('') is '.'
TruthyAsStr(v) == v.kind # "None" /\ v.p # "" /\ v.p # "."

\* Python truth value: None and '' are false, every Path object is true
Truthy(v) ==
    CASE v.kind = "None" -> FALSE
      [] v.kind = "str"  -> v.p # ""
      [] OTHER           -> TRUE

\* what the command line can give for output_directory
OutputArgs == {None, Str(""), Str("out_a")}

Langs == {"en"}

\* the file systems a run can find: the current directory always exists
FileSystems == {{"."}, {".", "out_a"}}

NoNlp == [made |-> FALSE, lang |-> "", pipeline |-> << >>, name |-> "",
          training |-> FALSE, updates |-> 0]

Stage(kind) == [kind |-> kind, labels |-> {}]

-----------------------------------------------------------------------------
(* The generator of the random module.  The algorithm is fixed by the      *)
(* interpreter and unknown to the script: gen picks one of a family of     *)
(* linear congruential generators over RngModulus states.                  *)

RngModulus == 16

RngStates == 0 .. (RngModulus - 1)

Generators == { [a |-> 5, c |-> 3], [a |-> 13, c |-> 7], [a |-> 9, c |-> 11] }

RngNext(g, s) == (g.a * s + g.c) % RngModulus

\* the generator left as the interpreter seeded it (clock, OS entropy)
SeedSkipped(a) == rng

\* random.seed(a)
SeedState(a) == a % RngModulus

\* the second assignment of the swap forgotten
SwapLosing(x, i, j) == [x EXCEPT ![i] = x[j]]

Swap(x, i, j) == [x EXCEPT ![i] = x[j], ![j] = x[i]]

\* random.shuffle(x): for i in reversed(range(1, len(x))): j = randbelow(i+1);
\* x[i], x[j] = x[j], x[i].  Returns the list and the generator state left.
RECURSIVE ShuffleFrom(_, _, _, _)
ShuffleFrom(g, s, x, i) ==
    IF i < 2 THEN [list |-> x, rng |-> s]
    ELSE LET s1 == RngNext(g, s)
             j  == (s1 % i) + 1
         IN  ShuffleFrom(g, s1, Swap(x, i, j), i - 1)

\* [random.choice(x) for _ in x]: a sample drawn with replacement
ShuffleWithReplacement(g, s, x) ==
    [list |-> [k \in 1 .. Len(x) |-> x[(RngNext(g, s + k) % Len(x)) + 1]],
     rng |-> RngNext(g, s)]

Shuffle(g, s, x) == ShuffleFrom(g, s, x, Len(x))

-----------------------------------------------------------------------------
(* get_gold_parses and minibatch *)

Min(a, b) == IF a < b THEN a ELSE b

\* doc = tokenizer(raw_text); gold = GoldParse(doc, entities=entity_offsets)
GoldPair(ex) == [doc |-> [text |-> ex.text],
                 gold |-> [text |-> ex.text, entities |-> ex.ents]]

\* cytoolz.take(size, items): the next `size` items of the generator, fewer
\* when it runs out
Take(size, data, from) ==
    [k \in 1 .. Min(size, Len(data) - from) |-> GoldPair(data[from + k])]

\* docs, golds = zip(*batch)
Docs(b) == [k \in 1 .. Len(b) |-> b[k].doc]

Golds(b) == [k \in 1 .. Len(b) |-> b[k].gold]

-----------------------------------------------------------------------------
(* A library call that raises: the script has no try/except, so the        *)
(* exception leaves main and ends the run.                                 *)

\* the exception swallowed and the call tried again
Retry(call) == pc' = pc /\ failed' = call

Propagate(call) == pc' = "raised" /\ failed' = call

Goto(l) == pc' = l /\ failed' = failed

-----------------------------------------------------------------------------
(* Initial states *)

Fresh ==
    /\ nlp = NoNlp
    /\ nlp2 = NoNlp
    /\ train_data = << >>
    /\ itn = 0
    /\ losses = 0
    /\ started = FALSE
    /\ pos = 0
    /\ batch = << >>
    /\ nshuffles = 0
    /\ golds = << >>
    /\ batches = << >>
    /\ fed = << >>
    /\ calls = << >>
    /\ failed = "none"

\* python train_new_entity_type.py <model_name> [<output_directory>]
Init ==
    /\ pc = "main"
    /\ model_name \in Langs
    /\ output_directory \in OutputArgs
    /\ fs \in FileSystems
    /\ fs0 = fs
    /\ disk = {}
    /\ rng \in RngStates
    /\ gen \in Generators
    /\ run = 1
    /\ first = [output_directory |-> None, fed |-> << >>]
    /\ Fresh

-----------------------------------------------------------------------------
(* main *)

Called(name, arg) == calls' = Append(calls, [call |-> name, arg |-> arg])

\* pipeline.insert(0, stage)
PrependStage(pipeline, stage) == << stage >> \o pipeline

\* the stages main appends, in order
AppendStage(pipeline, stage) == Append(pipeline, stage)

\* nlp.pipeline[-1].add_label(label)
AddLabelToLast(pipeline, label) ==
    [pipeline EXCEPT ![Len(pipeline)].labels = @ \cup {label}]

\* nlp = spacy.blank(model_name)
Blank ==
    /\ pc = "main"
    /\ Called("blank", model_name)
    /\ \/ /\ nlp' = [NoNlp EXCEPT !.made = TRUE, !.lang = model_name]
          /\ Goto("main_data")
       \/ /\ Propagate("blank")
          /\ UNCHANGED nlp
    /\ UNCHANGED <<model_name, output_directory, fs, disk, nlp2, train_data,
                   rng, gen, itn, losses, started, pos, batch, nshuffles,
                   golds, batches, fed, fs0, run, first>>

\* if output_directory is not None: output_directory = Path(output_directory)
\* train_data = [...]
BuildData ==
    /\ pc = "main_data"
    /\ output_directory' = IF output_directory.kind # "None"
                           THEN Path(output_directory)
                           ELSE output_directory
    /\ train_data' = MainTrainData
    /\ Goto("main_tok2vec")
    /\ UNCHANGED <<model_name, fs, disk, nlp, nlp2, rng, gen, itn, losses,
                   started, pos, batch, nshuffles, golds, batches, fed, calls,
                   fs0, run, first>>

\* nlp.pipeline.append(TokenVectorEncoder(nlp.vocab))
AddTokenVectorEncoder ==
    /\ pc = "main_tok2vec"
    /\ nlp' = [nlp EXCEPT
                 !.pipeline = AppendStage(@, Stage("TokenVectorEncoder"))]
    /\ Called("append", "TokenVectorEncoder")
    /\ Goto("main_ner")
    /\ UNCHANGED <<model_name, output_directory, fs, disk, nlp2, train_data,
                   rng, gen, itn, losses, started, pos, batch, nshuffles,
                   golds, batches, fed, fs0, run, first>>

\* nlp.pipeline.append(NeuralEntityRecognizer(nlp.vocab))
AddNeuralEntityRecognizer ==
    /\ pc = "main_ner"
    /\ nlp' = [nlp EXCEPT
                 !.pipeline = AppendStage(@, Stage("NeuralEntityRecognizer"))]
    /\ Called("append", "NeuralEntityRecognizer")
    /\ Goto("main_label")
    /\ UNCHANGED <<model_name, output_directory, fs, disk, nlp2, train_data,
                   rng, gen, itn, losses, started, pos, batch, nshuffles,
                   golds, batches, fed, fs0, run, first>>

\* nlp.pipeline[-1].add_label('ANIMAL'); train_ner(nlp, train_data, ...)
AddLabel ==
    /\ pc = "main_label"
    /\ nlp' = [nlp EXCEPT !.pipeline = AddLabelToLast(@, "ANIMAL")]
    /\ Called("add_label", "ANIMAL")
    /\ Goto("seed")
    /\ UNCHANGED <<model_name, output_directory, fs, disk, nlp2, train_data,
                   rng, gen, itn, losses, started, pos, batch, nshuffles,
                   golds, batches, fed, fs0, run, first>>

-----------------------------------------------------------------------------
(* train_ner *)

\* random.seed(0)
Seed ==
    /\ pc = "seed"
    /\ rng' = SeedState(SeedArg)
    /\ Goto("begin")
    /\ UNCHANGED <<model_name, output_directory, fs, disk, nlp, nlp2,
                   train_data, gen, itn, losses, started, pos, batch,
                   nshuffles, golds, batches, fed, calls, fs0, run, first>>

\* optimizer = nlp.begin_training(lambda: []); nlp.meta['name'] = ...
BeginTraining ==
    /\ pc = "begin"
    /\ nlp' = [nlp EXCEPT !.training = TRUE, !.name = "en_ent_animal"]
    /\ Called("begin_training", "")
    /\ Goto("epoch")
    /\ UNCHANGED <<model_name, output_directory, fs, disk, nlp2, train_data,
                   rng, gen, itn, losses, started, pos, batch, nshuffles,
                   golds, batches, fed, fs0, run, first>>

\* for itn in range(50): losses = {}; the generator and minibatch are made,
\* neither has run yet.  When range is exhausted the loop is left.
ForEpoch ==
    /\ pc = "epoch"
    /\ IF itn < Epochs
       THEN /\ losses' = 0
            /\ started' = FALSE
            /\ pos' = 0
            /\ nshuffles' = 0
            /\ golds' = << >>
            /\ batches' = << >>
            /\ Goto("next_batch")
       ELSE /\ Goto("save")
            /\ UNCHANGED <<losses, started, pos, nshuffles, golds, batches>>
    /\ UNCHANGED <<model_name, output_directory, fs, disk, nlp, nlp2,
                   train_data, rng, gen, itn, batch, fed, calls, fs0, run,
                   first>>

\* minibatch asks the generator for its first item: the body of
\* get_gold_parses starts and shuffles train_data in place
GenStart ==
    /\ pc = "next_batch"
    /\ ~started
    /\ LET r == Shuffle(gen, rng, train_data)
       IN  /\ train_data' = r.list
           /\ rng' = r.rng
    /\ started' = TRUE
    /\ nshuffles' = nshuffles + 1
    /\ Goto("next_batch")
    /\ UNCHANGED <<model_name, output_directory, fs, disk, nlp, nlp2, gen,
                   itn, losses, pos, batch, golds, batches, fed, calls, fs0,
                   run, first>>

\* the size argument left out: minibatch's default of 8
NextBatchDefaultSize(data, from) == Take(8, data, from)

\* minibatch(get_gold_parses(nlp.make_doc, train_data), size=3): the next batch
NextBatch(data, from) == Take(BatchSize, data, from)

ExampleOf(pair) == Example(pair.doc.text, pair.gold.entities)

Examples(b) == [k \in 1 .. Len(b) |-> ExampleOf(b[k])]

\* one round of minibatch's loop: take a batch from the generator, which makes
\* a Doc and a GoldParse per example; an empty batch ends the epoch and
\* print(losses) follows
TakeBatch ==
    /\ pc = "next_batch"
    /\ started
    /\ LET b == NextBatch(train_data, pos)
       IN  \/ /\ b # << >>
              /\ batch' = b
              /\ pos' = pos + Len(b)
              /\ golds' = golds \o Examples(b)
              /\ Goto("update")
              /\ UNCHANGED itn
           \/ /\ b # << >>
              /\ Propagate("GoldParse")
              /\ UNCHANGED <<batch, pos, golds, itn>>
           \/ /\ b = << >>
              /\ itn' = itn + 1
              /\ Goto("epoch")
              /\ UNCHANGED <<batch, pos, golds>>
    /\ UNCHANGED <<model_name, output_directory, fs, disk, nlp, nlp2,
                   train_data, rng, gen, losses, started, nshuffles, batches,
                   fed, calls, fs0, run, first>>

\* docs, golds = zip(*batch); nlp.update(docs, golds, losses=losses, ...)
Update ==
    /\ pc = "update"
    /\ fed' = Append(fed, [itn |-> itn, docs |-> Docs(batch),
                           golds |-> Golds(batch)])
    /\ batches' = Append(batches, batch)
    /\ \/ /\ nlp' = [nlp EXCEPT !.updates = @ + 1]
          /\ losses' = losses + 1
          /\ Goto("next_batch")
       \/ /\ Propagate("update")
          /\ UNCHANGED <<nlp, losses>>
    /\ UNCHANGED <<model_name, output_directory, fs, disk, nlp2, train_data,
                   rng, gen, itn, started, pos, batch, nshuffles, golds,
                   calls, fs0, run, first>>

\* the test always true: mkdir is never reached
ExistsAlways(dir, files) == TRUE

\* output_dir.exists()
Exists(dir, files) == dir.p \in files

\* if not output_dir: return / elif not output_dir.exists():
SaveCheck ==
    /\ pc = "save"
    /\ IF ~Truthy(output_directory)
       THEN Goto("predict")
       ELSE IF ~Exists(output_directory, fs)
            THEN Goto("mkdir")
            ELSE Goto("to_disk")
    /\ UNCHANGED <<model_name, output_directory, fs, disk, nlp, nlp2,
                   train_data, rng, gen, itn, losses, started, pos, batch,
                   nshuffles, golds, batches, fed, calls, fs0, run, first>>

\* output_dir.mkdir()
Mkdir ==
    /\ pc = "mkdir"
    /\ Called("mkdir", output_directory.p)
    /\ \/ /\ fs' = fs \cup {output_directory.p}
          /\ Goto("to_disk")
       \/ /\ Propagate("mkdir")
          /\ UNCHANGED fs
    /\ UNCHANGED <<model_name, output_directory, disk, nlp, nlp2, train_data,
                   rng, gen, itn, losses, started, pos, batch, nshuffles,
                   golds, batches, fed, fs0, run, first>>

\* nlp.to_disk(output_dir)
ToDisk ==
    /\ pc = "to_disk"
    /\ Called("to_disk", output_directory.p)
    /\ \/ /\ disk' = {d \in disk : d.path # output_directory.p}
                       \cup {[path |-> output_directory.p, nlp |-> nlp]}
          /\ Goto("predict")
       \/ /\ Propagate("to_disk")
          /\ UNCHANGED disk
    /\ UNCHANGED <<model_name, output_directory, fs, nlp, nlp2, train_data,
                   rng, gen, itn, losses, started, pos, batch, nshuffles,
                   golds, batches, fed, fs0, run, first>>

-----------------------------------------------------------------------------
(* main, after train_ner has returned *)

\* doc = nlp(text); ...; if output_directory:
Predict ==
    /\ pc = "predict"
    /\ Called("nlp", TestText)
    /\ \/ IF Truthy(output_directory) THEN Goto("load") ELSE Goto("done")
       \/ Propagate("nlp")
    /\ UNCHANGED <<model_name, output_directory, fs, disk, nlp, nlp2,
                   train_data, rng, gen, itn, losses, started, pos, batch,
                   nshuffles, golds, batches, fed, fs0, run, first>>

\* nlp2 = spacy.load(output_directory)
Load ==
    /\ pc = "load"
    /\ Called("load", output_directory.p)
    /\ \/ \E d \in disk :
            /\ d.path = output_directory.p
            /\ nlp2' = d.nlp
            /\ Goto("predict2")
       \/ /\ Propagate("load")
          /\ UNCHANGED nlp2
    /\ UNCHANGED <<model_name, output_directory, fs, disk, nlp, train_data,
                   rng, gen, itn, losses, started, pos, batch, nshuffles,
                   golds, batches, fed, fs0, run, first>>

\* doc2 = nlp2('Do you like horses?')
Predict2 ==
    /\ pc = "predict2"
    /\ Called("nlp2", "Do you like horses?")
    /\ \/ Goto("done")
       \/ Propagate("nlp2")
    /\ UNCHANGED <<model_name, output_directory, fs, disk, nlp, nlp2,
                   train_data, rng, gen, itn, losses, started, pos, batch,
                   nshuffles, golds, batches, fed, fs0, run, first>>

-----------------------------------------------------------------------------
(* Specifications *)

TrainNext ==
    \/ Seed
    \/ BeginTraining
    \/ ForEpoch
    \/ GenStart
    \/ TakeBatch
    \/ Update
    \/ SaveCheck
    \/ Mkdir
    \/ ToDisk

Next ==
    \/ Blank
    \/ BuildData
    \/ AddTokenVectorEncoder
    \/ AddNeuralEntityRecognizer
    \/ AddLabel
    \/ TrainNext
    \/ Predict
    \/ Load
    \/ Predict2

\* one run of the script
Spec == Init /\ [][Next]_vars

-----------------------------------------------------------------------------
(* train_ner called on its own, by any caller, with a prepared pipeline    *)

MaxTrainLen == 7

\* a training list of n examples
TrainList(n) ==
    [k \in 1 .. n |-> MainTrainData[((k - 1) % Len(MainTrainData)) + 1]]

PreparedNlp(lang) ==
    [NoNlp EXCEPT !.made = TRUE, !.lang = lang,
                  !.pipeline = AddLabelToLast(
                      << Stage("TokenVectorEncoder"),
                         Stage("NeuralEntityRecognizer") >>, "ANIMAL")]

InitTrain ==
    /\ pc = "seed"
    /\ model_name \in Langs
    /\ output_directory \in {None, Path(Str("")), Path(Str("out_a"))}
    /\ fs \in FileSystems
    /\ fs0 = fs
    /\ disk = {}
    /\ rng \in RngStates
    /\ gen \in Generators
    /\ run = 1
    /\ first = [output_directory |-> None, fed |-> << >>]
    /\ nlp2 = NoNlp
    /\ itn = 0
    /\ losses = 0
    /\ started = FALSE
    /\ pos = 0
    /\ batch = << >>
    /\ nshuffles = 0
    /\ golds = << >>
    /\ batches = << >>
    /\ fed = << >>
    /\ calls = << >>
    /\ failed = "none"
    /\ nlp = PreparedNlp(model_name)
    /\ train_data \in {TrainList(n) : n \in 0 .. MaxTrainLen}

\* train_ner from its first statement to its return
SpecTrain == InitTrain /\ [][TrainNext]_vars

-----------------------------------------------------------------------------
(* The script run a second time, in a new process, after a first run that  *)
(* finished: the file system is what the first run left, everything else   *)
(* starts afresh, the generator in whatever state the interpreter gives it *)

Restart ==
    /\ pc = "done"
    /\ run = 1
    /\ run' = 2
    /\ first' = [output_directory |-> output_directory, fed |-> fed]
    /\ pc' = "main"
    /\ output_directory' \in OutputArgs
    /\ rng' \in RngStates
    /\ fs0' = fs
    /\ nlp' = NoNlp
    /\ nlp2' = NoNlp
    /\ train_data' = << >>
    /\ itn' = 0
    /\ losses' = 0
    /\ started' = FALSE
    /\ pos' = 0
    /\ batch' = << >>
    /\ nshuffles' = 0
    /\ golds' = << >>
    /\ batches' = << >>
    /\ fed' = << >>
    /\ calls' = << >>
    /\ failed' = "none"
    /\ UNCHANGED <<model_name, fs, disk, gen>>

NextPair == Next \/ Restart

SpecPair == Init /\ [][NextPair]_vars

-----------------------------------------------------------------------------
(* Vocabulary of the properties *)

SetupPcs == {"main", "main_data", "main_tok2vec", "main_ner", "main_label"}

EpochPcs == {"epoch", "next_batch", "update"}

SavePcs == {"save", "mkdir", "to_disk"}

\* train_ner has returned normally
ReturnedPcs == {"predict", "load", "predict2", "done"}

\* an output directory was given
Given == output_directory.kind # "None"

Count(name) == Cardinality({k \in 1 .. Len(calls) : calls[k].call = name})

BagOf(x) ==
    [e \in {x[k] : k \in 1 .. Len(x)} |->
        Cardinality({k \in 1 .. Len(x) : x[k] = e})]

RECURSIVE Flatten(_)
Flatten(bs) == IF bs = << >> THEN << >> ELSE Head(bs) \o Flatten(Tail(bs))

IsPrefix(a, b) == Len(a) <= Len(b) /\ SubSeq(b, 1, Len(a)) = a

CeilDiv(n, d) == (n + d - 1) \div d

-----------------------------------------------------------------------------
(* C1: train_ner runs exactly fifty epochs: the loop variable stays within *)
(* 0..49 while an epoch runs, every batch handed to update carries an itn  *)
(* of 0..49, the function reaches its saving or returning part only with   *)
(* all fifty epochs done (each of them having presented its batches), and  *)
(* once the fiftieth epoch is over no step hands another batch to update.  *)

C1_State ==
    /\ itn \in 0 .. 50
    /\ (pc \in {"next_batch", "update"} => itn < 50)
    /\ \A k \in 1 .. Len(fed) : fed[k].itn \in 0 .. 49
    /\ (pc \in SavePcs \cup ReturnedPcs =>
            /\ itn = 50
            /\ (train_data # << >> =>
                    {fed[k].itn : k \in 1 .. Len(fed)} = 0 .. 49))

C1_FiftyEpochs ==
    [][C1_State /\ C1_State' /\ (itn = 50 => fed' = fed)]_vars

C1_Witness ==
    pc = "predict" /\ itn = 50 /\ Len(train_data) = 6 /\ Len(fed) = 100

(* C2: once main has built it, the training set holds exactly four         *)
(* examples at every point of the run.                                     *)

C2_FourSentences ==
    (pc \notin {"main", "main_data", "raised"} \/ train_data # << >>)
        => Len(train_data) = 4

(* C3: in every epoch the list is shuffled once, before any example is     *)
(* made into a gold annotation; the batches handed to update hold between  *)
(* 1 and 3 examples, all but the last exactly 3; together they are the     *)
(* shuffled list, each example once and in order; a finished epoch over n  *)
(* examples has made ceil(n/3) update calls.                               *)

C3_Batches ==
    /\ nshuffles <= 1
    /\ (golds # << >> => nshuffles = 1)
    /\ \A k \in 1 .. Len(batches) : Len(batches[k]) \in 1 .. 3
    /\ \A k \in 1 .. (Len(batches) - 1) : Len(batches[k]) = 3
    /\ IsPrefix(Examples(Flatten(batches)), train_data)
    /\ (pc = "epoch" /\ itn > 0 =>
            /\ nshuffles = 1
            /\ Examples(Flatten(batches)) = train_data
            /\ golds = train_data
            /\ Len(batches) = CeilDiv(Len(train_data), 3))

C3_Witness ==
    /\ pc = "epoch"
    /\ itn = 3
    /\ Len(train_data) = 7
    /\ Len(batches) = 3
    /\ Len(batches[3]) = 1

(* C4: training starts only on a pipeline made by blank for the given      *)
(* language whose stages are the encoder then the recognizer, the          *)
(* recognizer carrying the single label ANIMAL; these were set up in that  *)
(* order before the first update, and from the first statement of          *)
(* train_ner on no step changes the stages or their labels.                *)

TrainingStarted == pc \notin SetupPcs \cup {"raised"} \/ fed # << >>

C4_State ==
    TrainingStarted =>
        /\ nlp.made
        /\ nlp.lang = model_name
        /\ nlp.pipeline = << [kind |-> "TokenVectorEncoder", labels |-> {}],
                             [kind |-> "NeuralEntityRecognizer",
                              labels |-> {"ANIMAL"}] >>
        /\ Len(calls) >= 4
        /\ SubSeq(calls, 1, 4) =
              << [call |-> "blank", arg |-> model_name],
                 [call |-> "append", arg |-> "TokenVectorEncoder"],
                 [call |-> "append", arg |-> "NeuralEntityRecognizer"],
                 [call |-> "add_label", arg |-> "ANIMAL"] >>
        /\ Count("append") = 2
        /\ Count("add_label") = 1

C5_State ==
    /\ Count("mkdir") <= 1
    /\ Count("to_disk") <= 1
    /\ (Count("mkdir") + Count("to_disk") > 0 =>
            /\ itn = 50
            /\ Given
            /\ nlp.updates = 100)
    /\ (pc \in ReturnedPcs =>
            /\ itn = 50
            /\ IF ~Given
               THEN /\ Count("mkdir") = 0
                    /\ Count("to_disk") = 0
                    /\ fs = fs0
                    /\ disk = {}
               ELSE /\ Count("to_disk") = 1
                    /\ (Count("mkdir") = 1 <=> output_directory.p \notin fs0)
                    /\ calls[Len(calls)].call = "to_disk" \/ pc # "predict"
                    /\ output_directory.p \in fs
                    /\ [path |-> output_directory.p, nlp |-> nlp] \in disk)

C5_Witness ==
    /\ pc = "predict"
    /\ Count("mkdir") = 1
    /\ calls[Len(calls)].call = "to_disk"
    /\ calls[Len(calls) - 1].call = "mkdir"

(* C6, as the spec has it: the pipeline is reloaded only when an output    *)
(* directory was given and after to_disk for that directory, and a         *)
(* finished run has made exactly one inference call on the test sentence.  *)

Inferences == {k \in 1 .. Len(calls) : calls[k].call \in {"nlp", "nlp2"}}

LoadAfterSave ==
    \A k \in 1 .. Len(calls) :
        calls[k].call = "load" =>
            /\ Given
            /\ calls[k].arg = output_directory.p
            /\ \E j \in 1 .. (k - 1) :
                   calls[j] = [call |-> "to_disk", arg |-> calls[k].arg]
            /\ \E d \in disk : d.path = calls[k].arg

C6_OneInference ==
    /\ LoadAfterSave
    /\ \A k \in Inferences : calls[k].arg = "Do you like horses?"
    /\ (pc = "done" => Cardinality(Inferences) = 1)

(* C6, amended: the reload is as above; the trained pipeline in memory is  *)
(* always run once on the test sentence after train_ner returns and before *)
(* any reload; when an output directory was given the reloaded pipeline is *)
(* run on the same sentence too, after the reload: a finished run has made *)
(* one inference call without an output directory and two with one.        *)

C6_SaveInferReloadInfer ==
    /\ LoadAfterSave
    /\ \A k \in Inferences : calls[k].arg = "Do you like horses?"
    /\ Count("nlp") <= 1
    /\ Count("nlp2") <= 1
    /\ Count("load") <= 1
    /\ \A k \in 1 .. Len(calls) :
           /\ calls[k].call = "nlp" =>
                  /\ itn = 50
                  /\ Given => calls[k - 1].call = "to_disk"
           /\ calls[k].call = "load" => calls[k - 1].call = "nlp"
           /\ calls[k].call = "nlp2" => calls[k - 1].call = "load"
    /\ (pc = "done" =>
            /\ Count("nlp") = 1
            /\ Count("load") = (IF Given THEN 1 ELSE 0)
            /\ Count("nlp2") = (IF Given THEN 1 ELSE 0)
            /\ (Given => nlp2 = nlp))

C6_Witness ==
    /\ pc = "done"
    /\ Cardinality(Inferences) = 2
    /\ nlp2.updates = 100

(* C7, as the spec has it: no step of an epoch changes anything but the    *)
(* pipeline object and the losses record; the training list in particular  *)
(* is left as it was.                                                      *)

OutsideUnchanged ==
    /\ output_directory' = output_directory
    /\ model_name' = model_name
    /\ fs' = fs
    /\ disk' = disk
    /\ nlp2' = nlp2

C7_ListUntouched ==
    [][(pc \in EpochPcs) => (OutsideUnchanged /\ train_data' = train_data)]_vars

(* C7, amended: a step of an epoch changes, besides the pipeline object    *)
(* and the losses record, the order of the training list and the state of  *)
(* the random generator, both only in the shuffle that opens the epoch;    *)
(* the examples the list holds, and all other state outside the pipeline,  *)
(* are left as they were.                                                  *)

ShuffleStep == pc = "next_batch" /\ ~started

C7_OnlyOrderChanges ==
    [][(pc \in EpochPcs) =>
          /\ OutsideUnchanged
          /\ BagOf(train_data') = BagOf(train_data)
          /\ Len(train_data') = Len(train_data)
          /\ (~ShuffleStep => train_data' = train_data /\ rng' = rng)
          /\ (nlp' # nlp => pc = "update")]_vars

C7_Witness ==
    /\ pc = "next_batch"
    /\ started
    /\ itn = 0
    /\ train_data # MainTrainData
    /\ BagOf(train_data) = BagOf(MainTrainData)

(* C8: a library call that raises ends the run there: the run is in its    *)
(* failed state exactly when a call has raised, the call that raised is    *)
(* the last thing the run did (it is not made again and no later step is   *)
(* performed), and after a failure inside training no directory was made,  *)
(* nothing was written and no prediction, save or load was attempted.      *)

Failable == {"blank", "GoldParse", "update", "mkdir", "to_disk", "nlp",
             "load", "nlp2"}

C8_State ==
    /\ failed \in Failable \cup {"none"}
    /\ (failed # "none" <=> pc = "raised")
    /\ (failed \in {"update", "GoldParse"} =>
            /\ Count("mkdir") + Count("to_disk") + Count("load") = 0
            /\ Inferences = {}
            /\ fs = fs0
            /\ disk = {})
    /\ (failed = "update" =>
            /\ Len(fed) = nlp.updates + 1
            /\ fed[Len(fed)].itn = itn
            /\ fed[Len(fed)].docs = Docs(batch))
    /\ (failed \in Failable \ {"update", "GoldParse"} =>
            /\ calls[Len(calls)].call = failed
            /\ Count(failed) = 1)
    /\ (failed \in {"blank", "mkdir", "to_disk"} => Inferences = {})
    /\ (failed \in {"blank", "mkdir"} => disk = {})
    /\ (failed = "nlp" => Count("load") = 0)
    /\ (failed = "load" => Count("nlp2") = 0 /\ nlp2 = NoNlp)

C8_FailureEndsRun ==
    [][failed = "none" /\ C8_State /\ C8_State']_vars

C8_Witness ==
    /\ pc = "raised"
    /\ failed = "update"
    /\ itn = 17
    /\ Len(batches) = 2
    /\ nlp.updates = 35

(* C9: from the moment main has built it the training list holds exactly   *)
(* the examples main wrote, each text with its own spans, whatever their   *)
(* order; and the list changes only in the shuffle that opens an epoch, so *)
(* each shuffle starts from the order the previous one left.               *)

DataBuilt == pc \notin {"main", "main_data", "raised"} \/ train_data # << >>

C9_State ==
    DataBuilt =>
        /\ BagOf(train_data) = BagOf(MainTrainData)
        /\ Len(train_data) = Len(MainTrainData)

C9_ShuffleOnlyPermutes ==
    [][C9_State /\ C9_State'
       /\ (DataBuilt /\ ~ShuffleStep => train_data' = train_data)]_vars

C9_Witness ==
    /\ pc = "epoch"
    /\ itn = 50
    /\ train_data # MainTrainData
    /\ train_data[1] = MainTrainData[4]

(* C10: a second run of the script, whatever output directory it is given  *)
(* and whatever state its generator starts in, hands update the batches    *)
(* the first run did: the same examples in the same order with the same    *)
(* batch boundaries in the same epochs, all of them once it has finished   *)
(* training.                                                               *)

C10_SameBatches ==
    run = 2 =>
        /\ IsPrefix(fed, first.fed)
        /\ (pc \in SavePcs \cup ReturnedPcs => fed = first.fed)

C10_Witness ==
    /\ run = 2
    /\ pc = "done"
    /\ Len(fed) = 100
    /\ fed = first.fed
    /\ first.output_directory = None
    /\ output_directory = Path(Str("out_a"))

====
